---- MODULE Spec2Model ----
(***************************************************************************)
(* Model of the spaced-repetition tracker in src/src/spaced_rep.py.        *)
(*                                                                         *)
(* Two persisted tables (seen.csv, revisions.csv) are read in full and     *)
(* rewritten in full by add_new_topic, update_entry and                    *)
(* grab_revision_list.  A date string is a record [fmt, day]: the format   *)
(* it is written in and the calendar day it denotes; strptime and strftime *)
(* convert between strings and days.  A topic string is a sequence of      *)
(* characters, so that strip() and lower() are computed.                   *)
(***************************************************************************)
EXTENDS Integers, Sequences, FiniteSets, Bags, TLC

VARIABLES
    seenFile,   \* contents of SEEN_PATH: sequence of rows <<topic, date, url, reset_idx>>
    revFile,    \* contents of REVISIONS_PATH: bag of rows <<date, topic>>
    inv,        \* per caller: the invocation in progress (arguments, locals, tasks, output)
    calls,      \* number of invocations started so far
    bs          \* harness of the pure schedule generator: arguments and result

vars == <<seenFile, revFile, inv, calls, bs>>

-----------------------------------------------------------------------------
(* Bounds of the model *)

\* the day datetime.now() falls on, as a day number
Today == 2
\* how many invocations one behaviour makes
MaxCalls == 3

-----------------------------------------------------------------------------
(* Strings *)

\* str.lower() on the characters the model uses
LowerChar(c) == CASE c = "X" -> "x" [] c = "Y" -> "y" [] OTHER -> c

RECURSIVE LStrip(_)
LStrip(s) == IF s # <<>> /\ Head(s) = " " THEN LStrip(Tail(s)) ELSE s

RECURSIVE RStrip(_)
RStrip(s) == IF s # <<>> /\ s[Len(s)] = " " THEN RStrip(SubSeq(s, 1, Len(s) - 1)) ELSE s

\* topic.strip().lower()
NormTopic(t) == [i \in 1..Len(RStrip(LStrip(t))) |-> LowerChar(RStrip(LStrip(t))[i])]

-----------------------------------------------------------------------------
(* Dates *)

\* "YYYY-MM-DD" with zero padding, as strftime("%Y-%m-%d") writes it
Iso(d) == [fmt |-> "iso", day |-> d]
\* the same day without zero padding ("2024-6-5"): strptime accepts it
Short(d) == [fmt |-> "short", day |-> d]
\* a string strptime("%Y-%m-%d") rejects ("28/06/2024")
BadDate == [fmt |-> "bad", day |-> 0]
\* None or "": the argument is not given
NoDate == [fmt |-> "none", day |-> 0]

\* datetime.strptime(date, "%Y-%m-%d") succeeds
Parses(s) == s.fmt \in {"iso", "short"}
\* datetime.strptime(date, "%Y-%m-%d"), as a day number
strptime(s) == s.day
\* curr_day.strftime("%Y-%m-%d")
strftime(d) == Iso(d)
\* date = datetime.now().strftime("%Y-%m-%d") when no date is given
DefaultDate(s) == IF s = NoDate THEN strftime(Today) ELSE s

-----------------------------------------------------------------------------
(* Tables *)

\* column positions of a Seen row (0-based in the source, 1-based here)
SeenTopic(row) == row[1]
SeenDate(row) == row[2]
SeenUrl(row) == row[3]
SeenResetIdx(row) == row[4]

RevDate(row) == row[1]
RevTopic(row) == row[2]

RECURSIVE BagOfSeq(_)
BagOfSeq(s) == IF s = <<>> THEN EmptyBag ELSE SetToBag({Head(s)}) (+) BagOfSeq(Tail(s))

\* df.unique(subset=["date", "topic"]): one copy of each row
Unique(df) == SetToBag(BagToSet(df))

\* topic in df_seen["topic"]
InSeen(df_seen, topic) == \E i \in 1..Len(df_seen) : SeenTopic(df_seen[i]) = topic

\* reset_rate not in (0, 1, 2, 3, 4, 5, 6, 7, 8) is false
ValidResetRateMut(r) == r \in 0..9
ValidResetRate(r) == r \in 0..8

-----------------------------------------------------------------------------
(* build_space_rep *)

\* max(0, min(reset_rate, 8))
Clamp(r) == IF r < 0 THEN 0 ELSE IF r > 8 THEN 8 ELSE r

\* the rows appended by the loop for i in range(reset_rate, 9)
NewRows(topic, date, reset_rate) ==
    [k \in 1..(9 - Clamp(reset_rate)) |->
        <<strftime(strptime(date) + 2 ^ (Clamp(reset_rate) + k - 1)), NormTopic(topic)>>]

build_space_rep_short(df, topic, date, reset_rate) ==
    Unique(df (+) BagOfSeq(SubSeq(NewRows(topic, date, reset_rate), 1,
                                  Len(NewRows(topic, date, reset_rate)) - 1)))
build_space_rep_nodedup(df, topic, date, reset_rate) ==
    df (+) BagOfSeq(NewRows(topic, date, reset_rate))
\* pl.concat([df, df_new]).unique(subset=["date", "topic"]); defined when date parses
build_space_rep(df, topic, date, reset_rate) ==
    Unique(df (+) BagOfSeq(NewRows(topic, date, reset_rate)))

-----------------------------------------------------------------------------
(* remove_topic_from_revs, update_seen_concur, add_new_topic_seen_update *)

remove_topic_from_revs_strict(df, topic, date) ==
    [row \in {x \in DOMAIN df : ~(RevTopic(x) = NormTopic(topic) /\ strptime(RevDate(x)) > strptime(date))} |-> df[row]]
remove_topic_from_revs_all(df, topic, date) ==
    [row \in {x \in DOMAIN df : ~(strptime(RevDate(x)) >= strptime(date))} |-> df[row]]
\* df.filter(~((topic == topic) & (date >= start_date))): the rows kept, with their
\* multiplicity; defined when date parses
remove_topic_from_revs(df, topic, date) ==
    [row \in {x \in DOMAIN df : ~(RevTopic(x) = NormTopic(topic) /\ strptime(RevDate(x)) >= strptime(date))} |-> df[row]]

update_seen_concur_keepdate(df_seen, topic, reset_rate, date) ==
    [i \in 1..Len(df_seen) |->
        IF SeenTopic(df_seen[i]) = NormTopic(topic)
        THEN <<SeenTopic(df_seen[i]), SeenDate(df_seen[i]), SeenUrl(df_seen[i]), reset_rate>>
        ELSE df_seen[i]]
\* with_columns(when(topic == topic).then(reset_rate / date).otherwise(old))
update_seen_concur(df_seen, topic, reset_rate, date) ==
    [i \in 1..Len(df_seen) |->
        IF SeenTopic(df_seen[i]) = NormTopic(topic)
        THEN <<SeenTopic(df_seen[i]), date, SeenUrl(df_seen[i]), reset_rate>>
        ELSE df_seen[i]]

add_new_topic_seen_update_nourl(df_seen, topic, date, url) ==
    <<<<NormTopic(topic), date, "", 0>>>> \o df_seen
\* pl.concat([new_row, df_seen]) with new_row = (strip/lower topic, date, url or "", 0)
add_new_topic_seen_update(df_seen, topic, date, url) ==
    <<<<NormTopic(topic), date, url, 0>>>> \o df_seen

-----------------------------------------------------------------------------
(* grab_revision_list *)

\* what print() writes for an integer cell
IntText(n) == <<"0", "1", "2", "3", "4", "5", "6", "7", "8", "9">>[n + 1]

DateInRev_always(df_rev, date) == TRUE
\* date in df_rev["date"]
DateInRev(df_rev, date) == \E row \in DOMAIN df_rev : RevDate(row) = date

\* df_rev.filter(pl.col("date") == date)["topic"], as a bag
DueTopics(df_rev, date) ==
    [t \in {RevTopic(row) : row \in {x \in DOMAIN df_rev : RevDate(x) = date}} |->
        df_rev[<<date, t>>]]

\* the orders in which the rows of the date can stand in the table
DueOrders(df_rev, date) ==
    {s \in [1..BagCardinality(DueTopics(df_rev, date)) -> DOMAIN DueTopics(df_rev, date)] :
        BagOfSeq(s) = DueTopics(df_rev, date)}

\* df_seen.filter(pl.col("topic") == topic)
SeenRowsOf(df_seen, topic) == SelectSeq(df_seen, LAMBDA row : SeenTopic(row) = topic)

\* the three print() calls for one row: topic, row[1], row[3]
PrintedItem(topic, row) == <<"item", topic, row[1 + 1], IntText(row[3 + 1])>>

\* the loop over topics_list: a warning for a topic absent from Seen, then row(0)
\* which raises on the empty frame and ends the call
RECURSIVE ListLoop(_, _, _)
ListLoop(topics, df_seen, out) ==
    IF topics = <<>> THEN [out |-> out, result |-> "ok"]
    ELSE IF SeenRowsOf(df_seen, Head(topics)) = <<>>
         THEN [out |-> Append(out, <<"warn", Head(topics)>>), result |-> "OutOfBounds"]
         ELSE ListLoop(Tail(topics), df_seen,
                       Append(out, PrintedItem(Head(topics),
                                               SeenRowsOf(df_seen, Head(topics))[1])))

-----------------------------------------------------------------------------
(* Inputs *)

Callers == {1}
AllCallers == {1, 2}

TopicX == <<"x">>
TopicY == <<"y">>
TopicZ == <<"z">>
RawTopics == {TopicX, <<" ", "X">>, TopicZ}
DateInputs == {NoDate, Iso(0), Short(Today), BadDate}
UrlInputs == {"u", ""}
ResetInputs == {0, 1, 8, 9}

-----------------------------------------------------------------------------
(* State of one invocation *)

IdleInv ==
    [op |-> "none", pc |-> "idle",
     args |-> [topic |-> <<>>, date |-> NoDate, url |-> "", reset_rate |-> 0],
     topic |-> <<>>, date |-> NoDate,
     df_seen |-> <<>>, df_rev |-> EmptyBag, seen_read |-> FALSE, rev_read |-> FALSE,
     seen_task |-> "none", rev_task |-> "none",
     result |-> "none", out |-> <<>>,
     seen0 |-> <<>>, rev0 |-> EmptyBag, rev_writes |-> 0,
     stray |-> {}]

\* the caller is between invocations and none of its threads is still running
Free(p) ==
    /\ inv[p].pc \in {"idle", "done"}
    /\ inv[p].seen_task # "pending"
    /\ inv[p].rev_task # "pending"

\* the locals of a new invocation by caller p; threads an earlier invocation
\* left running are not affected by it
Begin(p, op, a) ==
    [IdleInv EXCEPT !.op = op, !.args = a, !.topic = a.topic, !.date = a.date,
                    !.seen0 = seenFile, !.rev0 = revFile, !.stray = inv[p].stray]

Set(p, r) == inv' = [inv EXCEPT ![p] = r]

-----------------------------------------------------------------------------
(* load_seen_and_rev: the two reads run in two pool threads and are joined *)

ReadSeen(p) ==
    /\ inv[p].pc = "load"
    /\ ~inv[p].seen_read
    /\ Set(p, [inv[p] EXCEPT !.df_seen = seenFile, !.seen_read = TRUE,
                             !.pc = IF inv[p].rev_read THEN "loaded" ELSE "load"])
    /\ UNCHANGED <<seenFile, revFile, calls, bs>>

ReadRev(p) ==
    /\ inv[p].pc = "load"
    /\ ~inv[p].rev_read
    /\ Set(p, [inv[p] EXCEPT !.df_rev = revFile, !.rev_read = TRUE,
                             !.pc = IF inv[p].seen_read THEN "loaded" ELSE "load"])
    /\ UNCHANGED <<seenFile, revFile, calls, bs>>

-----------------------------------------------------------------------------
(* update_revision: the range check, build_space_rep, write_data *)

\* the outcome of update_revision(df, topic, date, reset_idx): the table written,
\* or the exception raised before anything is written
update_revision(df, topic, date, reset_idx) ==
    IF ~ValidResetRate(reset_idx) \/ ~Parses(date)
    THEN [raised |-> TRUE, written |-> df]
    ELSE [raised |-> FALSE, written |-> build_space_rep(df, topic, date, reset_idx)]

-----------------------------------------------------------------------------
(* add_new_topic *)

AddCall_raw(p) ==
    /\ Free(p)
    /\ calls < MaxCalls
    /\ \E t \in RawTopics, d \in DateInputs, u \in UrlInputs :
          Set(p, [Begin(p, "add", [topic |-> t, date |-> d, url |-> u, reset_rate |-> 0])
                     EXCEPT !.pc = "load"])
    /\ calls' = calls + 1
    /\ UNCHANGED <<seenFile, revFile, bs>>

\* lines 176-177: the topic is normalised, then the tables are loaded
AddCall(p) ==
    /\ Free(p)
    /\ calls < MaxCalls
    /\ \E t \in RawTopics, d \in DateInputs, u \in UrlInputs :
          Set(p, [Begin(p, "add", [topic |-> t, date |-> d, url |-> u, reset_rate |-> 0])
                     EXCEPT !.topic = NormTopic(t), !.pc = "load"])
    /\ calls' = calls + 1
    /\ UNCHANGED <<seenFile, revFile, bs>>

AddCheck_nodup(p) ==
    /\ inv[p].op = "add"
    /\ inv[p].pc = "loaded"
    /\ Set(p, [inv[p] EXCEPT !.pc = "wait", !.date = DefaultDate(inv[p].date),
                             !.seen_task = "pending", !.rev_task = "pending"])
    /\ UNCHANGED <<seenFile, revFile, calls, bs>>

\* lines 179-191: the duplicate check, the default date, the two submits
AddCheck(p) ==
    /\ inv[p].op = "add"
    /\ inv[p].pc = "loaded"
    /\ IF InSeen(inv[p].df_seen, inv[p].topic)
       THEN Set(p, [inv[p] EXCEPT !.pc = "done", !.result = "warned"])
       ELSE Set(p, [inv[p] EXCEPT !.pc = "wait", !.date = DefaultDate(inv[p].date),
                                  !.seen_task = "pending", !.rev_task = "pending"])
    /\ UNCHANGED <<seenFile, revFile, calls, bs>>

AddSeenWrite_reread(p) ==
    /\ inv[p].op = "add"
    /\ inv[p].seen_task = "pending"
    /\ seenFile' = add_new_topic_seen_update(seenFile, inv[p].topic, inv[p].date,
                                             inv[p].args.url)
    /\ Set(p, [inv[p] EXCEPT !.seen_task = "done"])
    /\ UNCHANGED <<revFile, calls, bs>>

\* the pool thread running add_new_topic_seen_update
AddSeenWrite(p) ==
    /\ inv[p].op = "add"
    /\ inv[p].seen_task = "pending"
    /\ seenFile' = add_new_topic_seen_update(inv[p].df_seen, inv[p].topic, inv[p].date,
                                             inv[p].args.url)
    /\ Set(p, [inv[p] EXCEPT !.seen_task = "done"])
    /\ UNCHANGED <<revFile, calls, bs>>

\* the pool thread running update_revision(df_rev, topic, date)
AddRevWrite(p) ==
    /\ inv[p].op = "add"
    /\ inv[p].rev_task = "pending"
    /\ LET r == update_revision(inv[p].df_rev, inv[p].topic, inv[p].date, 0) IN
          IF r.raised
          THEN /\ Set(p, [inv[p] EXCEPT !.rev_task = "raised"])
               /\ UNCHANGED revFile
          ELSE /\ Set(p, [inv[p] EXCEPT !.rev_task = "done",
                                        !.rev_writes = inv[p].rev_writes + 1])
               /\ revFile' = r.written
    /\ UNCHANGED <<seenFile, calls, bs>>

\* wait(futures), f.result() for each, and the pool's shutdown on leaving the with block
AddJoin(p) ==
    /\ inv[p].op = "add"
    /\ inv[p].pc = "wait"
    /\ inv[p].seen_task # "pending"
    /\ inv[p].rev_task # "pending"
    /\ Set(p, [inv[p] EXCEPT !.pc = "done",
                 !.result = IF inv[p].rev_task = "raised" THEN "ValueError" ELSE "ok"])
    /\ UNCHANGED <<seenFile, revFile, calls, bs>>

-----------------------------------------------------------------------------
(* update_entry *)

\* lines 87-93: the range check, the default date, then the load
UpdateCall(p) ==
    /\ Free(p)
    /\ calls < MaxCalls
    /\ \E t \in RawTopics, d \in DateInputs, r \in ResetInputs :
          LET b == Begin(p, "update", [topic |-> t, date |-> d, url |-> "", reset_rate |-> r]) IN
          IF ~ValidResetRate(r)
          THEN Set(p, [b EXCEPT !.pc = "done", !.result = "ValueError"])
          ELSE Set(p, [b EXCEPT !.pc = "load", !.date = DefaultDate(d)])
    /\ calls' = calls + 1
    /\ UNCHANGED <<seenFile, revFile, bs>>

UpdateCheck_nolookup(p) ==
    /\ inv[p].op = "update"
    /\ inv[p].pc = "loaded"
    /\ Set(p, [inv[p] EXCEPT !.pc = "remove", !.seen_task = "pending",
                             !.topic = NormTopic(inv[p].topic)])
    /\ UNCHANGED <<seenFile, revFile, calls, bs>>

\* lines 95-100: the lookup, then the start of the seen_write thread
UpdateCheck(p) ==
    /\ inv[p].op = "update"
    /\ inv[p].pc = "loaded"
    /\ IF ~InSeen(inv[p].df_seen, NormTopic(inv[p].topic))
       THEN Set(p, [inv[p] EXCEPT !.pc = "done", !.result = "KeyError",
                                  !.topic = NormTopic(inv[p].topic)])
       ELSE Set(p, [inv[p] EXCEPT !.pc = "remove", !.seen_task = "pending",
                                  !.topic = NormTopic(inv[p].topic)])
    /\ UNCHANGED <<seenFile, revFile, calls, bs>>

\* the thread seen_write running update_seen_concur; nothing stops it when the
\* main thread raises
UpdateSeenWrite(p) ==
    /\ inv[p].op = "update"
    /\ inv[p].seen_task = "pending"
    /\ seenFile' = update_seen_concur(inv[p].df_seen, inv[p].topic,
                                      inv[p].args.reset_rate, inv[p].date)
    /\ Set(p, [inv[p] EXCEPT !.seen_task = "done"])
    /\ UNCHANGED <<revFile, calls, bs>>

UpdateRemove_persist(p) ==
    /\ inv[p].op = "update"
    /\ inv[p].pc = "remove"
    /\ IF ~Parses(inv[p].date)
       THEN /\ Set(p, [inv[p] EXCEPT !.pc = "done", !.result = "ValueError"])
            /\ UNCHANGED revFile
       ELSE /\ Set(p, [inv[p] EXCEPT !.pc = "revise",
                         !.rev_writes = inv[p].rev_writes + 1,
                         !.df_rev = remove_topic_from_revs(inv[p].df_rev, inv[p].topic,
                                                           inv[p].date)])
            /\ revFile' = remove_topic_from_revs(inv[p].df_rev, inv[p].topic, inv[p].date)
    /\ UNCHANGED <<seenFile, calls, bs>>

\* line 102: remove_topic_from_revs on the loaded table; strptime raises on a
\* malformed date and the exception leaves update_entry
UpdateRemove(p) ==
    /\ inv[p].op = "update"
    /\ inv[p].pc = "remove"
    /\ IF ~Parses(inv[p].date)
       THEN Set(p, [inv[p] EXCEPT !.pc = "done", !.result = "ValueError"])
       ELSE Set(p, [inv[p] EXCEPT !.pc = "revise",
                      !.df_rev = remove_topic_from_revs(inv[p].df_rev, inv[p].topic,
                                                        inv[p].date)])
    /\ UNCHANGED <<seenFile, revFile, calls, bs>>

\* line 105: update_revision on the purged table
UpdateRevise(p) ==
    /\ inv[p].op = "update"
    /\ inv[p].pc = "revise"
    /\ LET r == update_revision(inv[p].df_rev, inv[p].topic, inv[p].date,
                                inv[p].args.reset_rate) IN
          IF r.raised
          THEN /\ Set(p, [inv[p] EXCEPT !.pc = "done", !.result = "ValueError"])
               /\ UNCHANGED revFile
          ELSE /\ Set(p, [inv[p] EXCEPT !.pc = "join",
                                        !.rev_writes = inv[p].rev_writes + 1])
               /\ revFile' = r.written
    /\ UNCHANGED <<seenFile, calls, bs>>

\* line 107: seen_write.join()
UpdateJoin(p) ==
    /\ inv[p].op = "update"
    /\ inv[p].pc = "join"
    /\ inv[p].seen_task = "done"
    /\ Set(p, [inv[p] EXCEPT !.pc = "done", !.result = "ok"])
    /\ UNCHANGED <<seenFile, revFile, calls, bs>>

-----------------------------------------------------------------------------
(* grab_revision_list *)

ListCall(p) ==
    /\ Free(p)
    /\ calls < MaxCalls
    /\ \E d \in DateInputs :
          Set(p, [Begin(p, "list", [topic |-> <<>>, date |-> d, url |-> "", reset_rate |-> 0])
                     EXCEPT !.pc = "load", !.date = DefaultDate(d)])
    /\ calls' = calls + 1
    /\ UNCHANGED <<seenFile, revFile, bs>>

\* lines 54-70, for one order of the rows of the date
ListRun(p) ==
    /\ inv[p].op = "list"
    /\ inv[p].pc = "loaded"
    /\ IF ~DateInRev(inv[p].df_rev, inv[p].date)
       THEN Set(p, [inv[p] EXCEPT !.pc = "done", !.result = "nothing"])
       ELSE \E order \in DueOrders(inv[p].df_rev, inv[p].date) :
               LET r == ListLoop(order, inv[p].df_seen, <<>>) IN
               Set(p, [inv[p] EXCEPT !.pc = "done", !.result = r.result, !.out = r.out])
    /\ UNCHANGED <<seenFile, revFile, calls, bs>>

-----------------------------------------------------------------------------
(* The schedule generator on its own: build_space_rep applied to drawn       *)
(* arguments, then applied again to its own result                          *)

MaxResetArg == 10

BsIdle == [df |-> EmptyBag, topic |-> <<>>, date |-> NoDate, reset_rate |-> 0,
           count |-> 0, out |-> EmptyBag, once |-> EmptyBag, raised |-> FALSE]

\* the schedule of topic from day d at level r, as build_space_rep writes it
ScheduleOf(topic, d, r) == build_space_rep(EmptyBag, topic, Iso(d), r)

BuildTables ==
    {EmptyBag, ScheduleOf(TopicX, 0, 0), ScheduleOf(TopicZ, 0, 0),
     ScheduleOf(TopicX, 0, 0) (+) ScheduleOf(TopicY, Today, 1)}

BuildApply ==
    /\ bs.count < 2
    /\ ~bs.raised
    /\ IF ~Parses(bs.date)
       THEN bs' = [bs EXCEPT !.raised = TRUE]
       ELSE bs' = [bs EXCEPT !.count = bs.count + 1,
                     !.out = build_space_rep(IF bs.count = 0 THEN bs.df ELSE bs.out,
                                             bs.topic, bs.date, bs.reset_rate),
                     !.once = IF bs.count = 0
                              THEN build_space_rep(bs.df, bs.topic, bs.date, bs.reset_rate)
                              ELSE bs.once]
    /\ UNCHANGED <<seenFile, revFile, inv, calls>>

-----------------------------------------------------------------------------
(* Specifications *)

\* the tables two overlapping add_new_topic calls (z, then x) can leave: both
\* schedules in Revisions, only the later writer's row in Seen
RacedSeen == <<<<TopicX, Iso(0), "u", 0>>>>
RacedRev == ScheduleOf(TopicX, 0, 0) (+) ScheduleOf(TopicZ, 0, 0)

InitTables ==
    \/ seenFile = <<>> /\ revFile = EmptyBag
    \/ seenFile = RacedSeen /\ revFile = RacedRev

Init ==
    /\ InitTables
    /\ inv = [p \in AllCallers |-> IdleInv]
    /\ calls = 0
    /\ bs = BsIdle

\* a caller invokes one of the three operations
CallStep(p) == AddCall(p) \/ UpdateCall(p) \/ ListCall(p)

\* a step of an invocation or of one of its threads
WorkStep(p) ==
    \/ ReadSeen(p) \/ ReadRev(p)
    \/ AddCheck(p) \/ AddSeenWrite(p) \/ AddRevWrite(p) \/ AddJoin(p)
    \/ UpdateCheck(p) \/ UpdateSeenWrite(p) \/ UpdateRemove(p)
    \/ UpdateRevise(p) \/ UpdateJoin(p)
    \/ ListRun(p)

Step(p) == CallStep(p) \/ WorkStep(p)

\* one caller: invocations follow one another
Next == \E p \in Callers : Step(p)

Spec == Init /\ [][Next]_vars

\* the same program started on two empty tables
InitEmpty ==
    /\ seenFile = <<>>
    /\ revFile = EmptyBag
    /\ inv = [p \in AllCallers |-> IdleInv]
    /\ calls = 0
    /\ bs = BsIdle

SpecEmpty == InitEmpty /\ [][Next]_vars

\* One caller that catches the exception of a failed update_entry and goes on
\* in the same process: the seen_write thread the failed call started was never
\* joined and runs on beside the calls that follow.
CatchRaise(p) ==
    /\ inv[p].op = "update"
    /\ inv[p].pc = "done"
    /\ inv[p].seen_task = "pending"
    /\ Set(p, [inv[p] EXCEPT !.seen_task = "detached",
                 !.stray = inv[p].stray \cup
                     {update_seen_concur(inv[p].df_seen, inv[p].topic,
                                         inv[p].args.reset_rate, inv[p].date)}])
    /\ UNCHANGED <<seenFile, revFile, calls, bs>>

\* a detached seen_write thread reaches write_data(df_seen, SEEN_PATH)
StrayWrite(p) ==
    /\ \E t \in inv[p].stray :
          /\ seenFile' = t
          /\ Set(p, [inv[p] EXCEPT !.stray = inv[p].stray \ {t}])
    /\ UNCHANGED <<revFile, calls, bs>>

NextInProcess == \E p \in Callers : Step(p) \/ CatchRaise(p) \/ StrayWrite(p)

SpecInProcess == InitEmpty /\ [][NextInProcess]_vars

\* Two callers, one invocation each, running against the same files at the
\* same time
NextOverlap ==
    \E p \in AllCallers : (inv[p].pc = "idle" /\ CallStep(p)) \/ WorkStep(p)

SpecOverlap == InitEmpty /\ [][NextOverlap]_vars

InitBuild ==
    /\ seenFile = <<>>
    /\ revFile = EmptyBag
    /\ inv = [p \in AllCallers |-> IdleInv]
    /\ calls = 0
    /\ \E df \in BuildTables, t \in RawTopics, d \in {Iso(0), Short(Today), BadDate},
          r \in -1..MaxResetArg :
          bs = [BsIdle EXCEPT !.df = df, !.topic = t, !.date = d, !.reset_rate = r]

NextBuild == BuildApply

SpecBuild == InitBuild /\ [][NextBuild]_vars

-----------------------------------------------------------------------------
(* Properties *)

\* the key a topic is identified by: trimmed and lower-cased
TopicKey(t) == [i \in 1..Len(RStrip(LStrip(t))) |-> LowerChar(RStrip(LStrip(t))[i])]

\* the rows of a topic in a Revisions table
RowsOf(df, t) == {row \in DOMAIN df : row[2] = t}

\* the rows (D + 2^i days, t) for i = r..8
Expected(t, D, r) == {<<Iso(D + 2 ^ i), t>> : i \in r..8}

Returned(p, op) == inv[p].op = op /\ inv[p].pc = "done"

\* C1: for every reset level r in 0..8, start date D and topic, build_space_rep on
\* a table holding no row of the topic returns a table whose rows of the topic
\* are exactly the 9 - r rows dated D + 2^r, ..., D + 2^8, each once.
C1_BuildScheduleExact ==
    (bs.count >= 1 /\ bs.reset_rate \in 0..8 /\ RowsOf(bs.df, TopicKey(bs.topic)) = {})
    => /\ RowsOf(bs.once, TopicKey(bs.topic))
              = Expected(TopicKey(bs.topic), bs.date.day, bs.reset_rate)
       /\ Cardinality(RowsOf(bs.once, TopicKey(bs.topic))) = 9 - bs.reset_rate
       /\ \A row \in RowsOf(bs.once, TopicKey(bs.topic)) : bs.once[row] = 1

\* the generator has run at level 8 on a table of other topics' rows
C1_Witness ==
    /\ bs.count >= 1
    /\ bs.reset_rate = 8
    /\ bs.df # EmptyBag
    /\ RowsOf(bs.df, TopicKey(bs.topic)) = {}
    /\ RowsOf(bs.once, TopicKey(bs.topic)) = {<<Iso(bs.date.day + 256), TopicKey(bs.topic)>>}

\* C2: a successful add_new_topic(topic, D, url) on a topic not in Seen leaves
\* Seen with one new row (topic, D, url, reset 0) and Revisions holding the topic
\* on D+1, D+2, D+4, ..., D+256.
C2_AddTopicEffect ==
    \A p \in AllCallers :
        (Returned(p, "add") /\ inv[p].result = "ok"
            /\ ~InSeen(inv[p].seen0, TopicKey(inv[p].args.topic)))
        => /\ Len(seenFile) = Len(inv[p].seen0) + 1
           /\ \E i \in 1..Len(seenFile) :
                 seenFile[i] = <<TopicKey(inv[p].args.topic), DefaultDate(inv[p].args.date),
                                 inv[p].args.url, 0>>
           /\ \A k \in 0..8 :
                 BagIn(<<Iso(DefaultDate(inv[p].args.date).day + 2 ^ k),
                         TopicKey(inv[p].args.topic)>>, revFile)

\* an add of a padded, upper-case topic with a url and an unpadded date has returned
C2_Witness ==
    \E p \in AllCallers :
        /\ Returned(p, "add") /\ inv[p].result = "ok"
        /\ inv[p].args.topic = <<" ", "X">>
        /\ inv[p].args.date = Short(Today)
        /\ inv[p].args.url = "u"
        /\ inv[p].seen0 # <<>>

\* C3: a successful update_entry(topic, cutoff, r), r in 0..8, leaves the topic's
\* Seen row with date = cutoff and reset level = r, and the topic's Revisions rows
\* dated on or after cutoff are exactly cutoff + 2^i for i = r..8.
C3_UpdateEntryEffect ==
    \A p \in AllCallers :
        (Returned(p, "update") /\ inv[p].result = "ok")
        => LET t == TopicKey(inv[p].args.topic)
               c == DefaultDate(inv[p].args.date)
               r == inv[p].args.reset_rate
           IN /\ r \in 0..8
              /\ InSeen(seenFile, t)
              /\ \A i \in 1..Len(seenFile) :
                    seenFile[i][1] = t => seenFile[i][2] = c /\ seenFile[i][4] = r
              /\ {row \in RowsOf(revFile, t) : row[1].day >= c.day} = Expected(t, c.day, r)
              /\ \A row \in RowsOf(revFile, t) : revFile[row] = 1

\* an update has returned that purged a row dated exactly at the cutoff, kept an
\* earlier row, and regenerated a date that was already scheduled
C3_Witness ==
    \E p \in AllCallers :
        /\ Returned(p, "update") /\ inv[p].result = "ok"
        /\ LET t == TopicKey(inv[p].args.topic)
               c == DefaultDate(inv[p].args.date)
           IN /\ \E row \in RowsOf(inv[p].rev0, t) : row[1].day = c.day /\ ~BagIn(row, revFile)
              /\ \E row \in RowsOf(revFile, t) : row[1].day < c.day
              /\ \E row \in RowsOf(inv[p].rev0, t) : row[1].day > c.day /\ BagIn(row, revFile)

\* C4: add_new_topic or update_entry called with a malformed date fails with a
\* parsing error and leaves both tables as they were.
C4_BadDateNoWrite ==
    \A p \in AllCallers :
        (inv[p].op \in {"add", "update"} /\ inv[p].pc = "done"
            /\ inv[p].args.date = BadDate /\ inv[p].result = "ValueError")
        => seenFile = inv[p].seen0 /\ revFile = inv[p].rev0

\* C5: grab_revision_list on a date with a row whose topic is absent from Seen
\* warns for that row, does not abort, and lists every row of the date whose topic
\* is in Seen, in whatever order the rows stand.
C5_OrphanWarnedOthersListed ==
    \A p \in AllCallers :
        (Returned(p, "list")
            /\ \E row \in DOMAIN inv[p].df_rev :
                  row[1] = inv[p].date /\ ~InSeen(inv[p].df_seen, row[2]))
        => /\ inv[p].result = "ok"
           /\ \A row \in DOMAIN inv[p].df_rev :
                 row[1] = inv[p].date
                 => IF InSeen(inv[p].df_seen, row[2])
                    THEN \E k \in 1..Len(inv[p].out) :
                            inv[p].out[k][1] = "item" /\ inv[p].out[k][2] = row[2]
                    ELSE \E k \in 1..Len(inv[p].out) :
                            inv[p].out[k] = <<"warn", row[2]>>

\* C6: update_entry with a reset level outside 0..8 fails with the range error
\* at once and leaves both tables unchanged, whether or not the topic exists.
C6_BadResetRejected ==
    \A p \in AllCallers :
        (inv[p].op = "update" /\ inv[p].args.reset_rate \notin 0..8)
        => /\ inv[p].pc = "done"
           /\ inv[p].result = "ValueError"
           /\ inv[p].seen_task = "none"
           /\ seenFile = inv[p].seen0
           /\ revFile = inv[p].rev0

\* an update at level 9 of a topic that is in Seen and has rows in Revisions
C6_Witness ==
    \E p \in AllCallers :
        /\ Returned(p, "update")
        /\ inv[p].args.reset_rate = 9
        /\ InSeen(seenFile, TopicKey(inv[p].args.topic))
        /\ RowsOf(revFile, TopicKey(inv[p].args.topic)) # {}

\* C7 as stated: update_entry on a topic absent from Seen fails with the
\* not-found error and leaves both tables unchanged.
C7_AbsentTopicNotFound ==
    \A p \in AllCallers :
        (Returned(p, "update") /\ ~InSeen(inv[p].seen0, TopicKey(inv[p].args.topic)))
        => /\ inv[p].result = "KeyError"
           /\ seenFile = inv[p].seen0
           /\ revFile = inv[p].rev0

\* C7 amended: update_entry with a reset level in 0..8 on a topic absent from
\* Seen starts no write, leaves both tables unchanged while it runs and when it
\* has returned, and fails with the not-found error.
C7_AbsentTopicNotFoundValidLevel ==
    \A p \in AllCallers :
        (inv[p].op = "update" /\ inv[p].args.reset_rate \in 0..8
            /\ ~InSeen(inv[p].seen0, TopicKey(inv[p].args.topic)))
        => /\ seenFile = inv[p].seen0
           /\ revFile = inv[p].rev0
           /\ inv[p].seen_task = "none"
           /\ inv[p].pc = "done" => inv[p].result = "KeyError"

\* an update of a topic absent from a non-empty Seen, with a malformed date, has
\* been refused
C7_Witness ==
    \E p \in AllCallers :
        /\ Returned(p, "update") /\ inv[p].result = "KeyError"
        /\ inv[p].args.date = BadDate
        /\ inv[p].seen0 # <<>>
        /\ revFile # EmptyBag

\* C8: Seen holds at most one row per trimmed, lower-cased topic, and
\* add_new_topic on a topic already present under that key adds no row.
C8_SeenOneRowPerTopic ==
    /\ \A i, j \in 1..Len(seenFile) :
          TopicKey(seenFile[i][1]) = TopicKey(seenFile[j][1]) => i = j
    /\ \A p \in AllCallers :
          (inv[p].op = "add" /\ InSeen(inv[p].seen0, TopicKey(inv[p].args.topic)))
          => Len(seenFile) = Len(inv[p].seen0)

\* an add of " X" has returned while Seen holds x and another topic
C8_Witness ==
    \E p \in AllCallers :
        /\ Returned(p, "add") /\ inv[p].result = "warned"
        /\ inv[p].args.topic = <<" ", "X">>
        /\ InSeen(seenFile, <<"x">>)
        /\ Len(seenFile) = 2

\* C9: when add_new_topic or update_entry has returned or raised, no write it
\* started is still pending.
C9_AllTasksJoined ==
    \A p \in AllCallers :
        inv[p].pc = "done" => inv[p].seen_task # "pending" /\ inv[p].rev_task # "pending"

\* C10: for each row of the date whose topic is in Seen, grab_revision_list
\* prints the topic with the date and the url of the topic's Seen row.
C10_ListShowsDateAndUrl ==
    \A p \in AllCallers :
        Returned(p, "list")
        => \A k \in 1..Len(inv[p].out) :
              inv[p].out[k][1] = "item"
              => LET row == SeenRowsOf(inv[p].df_seen, inv[p].out[k][2])[1]
                 IN inv[p].out[k][3] = row[2] /\ inv[p].out[k][4] = row[3]

\* C11: grab_revision_list on a date string no Revisions row carries reports
\* nothing due and returns without error, and grab_revision_list on any date
\* leaves both tables as they were.
C11_ListReadOnlyNothingDue ==
    \A p \in AllCallers :
        inv[p].op = "list"
        => /\ seenFile = inv[p].seen0
           /\ revFile = inv[p].rev0
           /\ inv[p].seen_task = "none" /\ inv[p].rev_task = "none"
           /\ (inv[p].pc = "done"
                 /\ \A row \in DOMAIN inv[p].rev0 : row[1] # DefaultDate(inv[p].args.date))
              => inv[p].result = "nothing" /\ inv[p].out = <<>>

\* a listing for a date without rows has returned on tables that are not empty
C11_Witness ==
    \E p \in AllCallers :
        /\ Returned(p, "list") /\ inv[p].result = "nothing"
        /\ inv[p].args.date = Iso(0)
        /\ seenFile # <<>>
        /\ revFile # EmptyBag

\* C12: merging the same schedule (same topic, start date, reset level) into a
\* Revisions table a second time with build_space_rep leaves the table as the
\* first merge left it: the same rows, each as many times.
C12_MergeTwiceSameRows ==
    bs.count = 2 => bs.out = bs.once

\* the schedule has been merged twice into a table that already held rows of
\* the topic and of another topic
C12_Witness ==
    /\ bs.count = 2
    /\ RowsOf(bs.df, TopicKey(bs.topic)) # {}
    /\ RowsOf(bs.df, TopicKey(bs.topic)) # DOMAIN bs.df
    /\ RowsOf(bs.out, TopicKey(bs.topic)) # RowsOf(bs.df, TopicKey(bs.topic))

\* C13: the persisted Revisions table never holds two rows with the same
\* (date, topic) pair, also when a schedule is merged onto rows of the same
\* topic that are already there.
C13_RevisionsNoDuplicate ==
    \A row \in DOMAIN revFile : revFile[row] = 1

\* an add has written a schedule onto rows of the same topic with the same dates
C13_Witness ==
    \E p \in AllCallers :
        /\ Returned(p, "add") /\ inv[p].result = "ok"
        /\ \E row \in RowsOf(inv[p].rev0, TopicKey(inv[p].args.topic)) :
              row \in Expected(TopicKey(inv[p].args.topic),
                               DefaultDate(inv[p].args.date).day, 0)

\* no invocation is in progress and no thread of an earlier one is still running
Quiet ==
    \A p \in AllCallers :
        /\ inv[p].pc \in {"idle", "done"}
        /\ inv[p].seen_task # "pending"
        /\ inv[p].rev_task # "pending"
        /\ inv[p].stray = {}

\* C14: starting from empty tables, after any sequence of add_new_topic and
\* update_entry calls made one after the other, accepted or rejected, every
\* topic of a Revisions row has a row in Seen.
C14_RevisionTopicsInSeen ==
    Quiet => \A row \in DOMAIN revFile : InSeen(seenFile, row[2])

\* C15: add_new_topic on a topic already in Seen starts no write and leaves both
\* tables as they were: the topic's date, reset level, url and schedule stay.
C15_DuplicateAddNoWrite ==
    \A p \in AllCallers :
        (inv[p].op = "add" /\ InSeen(inv[p].seen0, TopicKey(inv[p].args.topic)))
        => /\ seenFile = inv[p].seen0
           /\ revFile = inv[p].rev0
           /\ inv[p].seen_task = "none" /\ inv[p].rev_task = "none"
           /\ inv[p].pc = "done" => inv[p].result = "warned"

\* an add of " X" with another date and url than the stored row of x has been
\* refused while x has a schedule
C15_Witness ==
    \E p \in AllCallers :
        /\ Returned(p, "add") /\ inv[p].result = "warned"
        /\ inv[p].args.topic = <<" ", "X">>
        /\ \E i \in 1..Len(seenFile) :
              /\ seenFile[i][1] = <<"x">>
              /\ seenFile[i][2] # DefaultDate(inv[p].args.date)
              /\ seenFile[i][3] # inv[p].args.url
              /\ seenFile[i][4] # 0
        /\ RowsOf(revFile, <<"x">>) # {}

\* C16: update_entry(topic, cutoff, r) removes no Revisions row of another topic
\* and no row of this topic dated before cutoff, and changes no Seen row of
\* another topic nor the url of the updated row.
C16_UpdateEntryFrame ==
    \A p \in AllCallers :
        inv[p].op = "update"
        => LET t == TopicKey(inv[p].args.topic)
               c == DefaultDate(inv[p].args.date)
           IN /\ \A row \in DOMAIN inv[p].rev0 :
                    (row[2] # t \/ (Parses(c) /\ row[1].day < c.day))
                    => BagIn(row, revFile) /\ revFile[row] = inv[p].rev0[row]
              /\ Len(seenFile) = Len(inv[p].seen0)
              /\ \A i \in 1..Len(inv[p].seen0) :
                    IF inv[p].seen0[i][1] = t
                    THEN seenFile[i][1] = t /\ seenFile[i][3] = inv[p].seen0[i][3]
                    ELSE seenFile[i] = inv[p].seen0[i]

\* an update has returned on tables that held later rows of another topic, an
\* earlier row of this topic, and a Seen row of another topic
C16_Witness ==
    \E p \in AllCallers :
        /\ Returned(p, "update") /\ inv[p].result = "ok"
        /\ LET t == TopicKey(inv[p].args.topic)
               c == DefaultDate(inv[p].args.date)
           IN /\ \E row \in DOMAIN inv[p].rev0 : row[2] # t /\ row[1].day >= c.day
              /\ \E row \in RowsOf(inv[p].rev0, t) : row[1].day < c.day
              /\ \E i \in 1..Len(inv[p].seen0) : inv[p].seen0[i][1] # t
              /\ \E i \in 1..Len(inv[p].seen0) :
                    inv[p].seen0[i][1] = t /\ inv[p].seen0[i][3] = "u"
              /\ seenFile # inv[p].seen0

\* the Seen table and the Revisions table an add_new_topic call writes: its own
\* copy of the table with its row, or its schedule, added
WrittenSeen(p) ==
    <<<<TopicKey(inv[p].args.topic), DefaultDate(inv[p].args.date), inv[p].args.url, 0>>>>
        \o inv[p].df_seen
WrittenRev(p) ==
    SetToBag(DOMAIN inv[p].df_rev
             \cup Expected(TopicKey(inv[p].args.topic), DefaultDate(inv[p].args.date).day, 0))

BothAdded ==
    /\ \A p \in AllCallers : Returned(p, "add") /\ inv[p].result = "ok"
    /\ \A p, q \in AllCallers :
          p # q => TopicKey(inv[p].args.topic) # TopicKey(inv[q].args.topic)

\* C17: two add_new_topic calls for distinct new topics that run against the
\* same files at the same time are not protected from each other: each table
\* ends as one of the two calls wrote it from its own copy (the last writer's).
C17_LastWriterWins ==
    BothAdded
    => /\ \E p \in AllCallers : seenFile = WrittenSeen(p)
       /\ \E p \in AllCallers : revFile = WrittenRev(p)

\* both calls have returned normally, one topic is missing from Seen, and that
\* topic has rows in Revisions
C17_Witness ==
    /\ BothAdded
    /\ \E p \in AllCallers :
          /\ ~InSeen(seenFile, TopicKey(inv[p].args.topic))
          /\ RowsOf(revFile, TopicKey(inv[p].args.topic)) # {}

\* the rows of table df that a purge of topic t from day c on keeps
Kept(df, t, c) == {row \in DOMAIN df : ~(row[2] = t /\ row[1].day >= c)}

\* C18: update_entry persists the Revisions table at most once, and what it
\* persists is the loaded table purged and then regenerated; until then the
\* persisted table is the one that was loaded, never the purged one.
C18_PurgeThenRegenerateOneWrite ==
    \A p \in AllCallers :
        inv[p].op = "update"
        => LET t == TopicKey(inv[p].args.topic)
               c == DefaultDate(inv[p].args.date)
               r == inv[p].args.reset_rate
           IN /\ inv[p].rev_writes \in {0, 1}
              /\ inv[p].rev_writes = 0 => revFile = inv[p].rev0
              /\ inv[p].rev_writes = 1
                 => /\ inv[p].pc \in {"join", "done"}
                    /\ revFile = SetToBag(Kept(inv[p].rev0, t, c.day)
                                          \cup Expected(t, c.day, r))
              /\ (inv[p].pc = "done" /\ inv[p].result = "ok") => inv[p].rev_writes = 1

\* the purge has been applied to the in-memory table and dropped rows, the
\* regeneration has not run yet, and the persisted table is still the loaded one
C18_Witness ==
    \E p \in AllCallers :
        /\ inv[p].op = "update"
        /\ inv[p].pc = "revise"
        /\ inv[p].df_rev # inv[p].rev0
        /\ revFile = inv[p].rev0

\* C19: starting from empty tables, whenever no operation is in progress, each
\* Seen row (topic, F, r) whose date F is well-formed (as it is after accepted
\* calls) has r in 0..8, and the Revisions rows of the topic dated after F are
\* exactly F + 2^i days for i = r..8.
C19_TablesConsistent ==
    Quiet
    => \A i \in 1..Len(seenFile) :
          seenFile[i][2].fmt \in {"iso", "short"}
          => /\ seenFile[i][4] \in 0..8
             /\ {row \in RowsOf(revFile, seenFile[i][1]) : row[1].day > seenFile[i][2].day}
                   = Expected(seenFile[i][1], seenFile[i][2].day, seenFile[i][4])

\* an accepted add followed by an accepted update at a later cutoff and a
\* higher level: the topic keeps an earlier row, and Seen holds another date
\* and level than the add wrote
C19_Witness ==
    \E p \in AllCallers :
        /\ calls = 2
        /\ Returned(p, "update") /\ inv[p].result = "ok"
        /\ inv[p].args.reset_rate = 1
        /\ inv[p].seen_task = "done"
        /\ \E row \in RowsOf(revFile, TopicKey(inv[p].args.topic)) :
              row[1].day < DefaultDate(inv[p].args.date).day

====
